---- MODULE Spec2Model ----
(***************************************************************************)
(* Model of the mortgage calculator of src/src/App.jsx: the valtio store   *)
(* `state`, the four input handlers, handleSubmit and calculate.           *)
(*                                                                         *)
(* JavaScript numbers are IEEE-754 binary64 values.  They are modelled bit *)
(* for bit: a number is a record [k, s, m, e] with k the kind ("fin",      *)
(* "inf", "nan"), s the sign bit, and for a finite number the value        *)
(* (-1)^s * m * 2^e, where the significand m is a natural number of at     *)
(* most 53 bits held as a little-endian sequence of 15-bit limbs (TLC's    *)
(* integers are 32 bits wide) and -1074 <= e <= 971.  Every arithmetic     *)
(* operator computes the exact result and rounds it to nearest, ties to    *)
(* even, as the hardware does.                                             *)
(***************************************************************************)
EXTENDS Integers, Sequences, FiniteSets, TLC

(***************************************************************************)
(* Natural numbers of any size: little-endian sequences of limbs, no       *)
(* leading zero limb, <<>> for 0.                                          *)
(***************************************************************************)
LimbBits == 15
Base == 2^LimbBits

RECURSIVE NTrim(_)
NTrim(a) ==
  IF a = <<>> THEN a
  ELSE IF a[Len(a)] = 0 THEN NTrim(SubSeq(a, 1, Len(a) - 1))
  ELSE a

RECURSIVE NFromInt(_)
NFromInt(x) == IF x = 0 THEN <<>> ELSE <<x % Base>> \o NFromInt(x \div Base)

Limb(a, i) == IF i >= 1 /\ i <= Len(a) THEN a[i] ELSE 0

RECURSIVE NAddFrom(_, _, _, _)
NAddFrom(a, b, i, carry) ==
  IF i > Len(a) /\ i > Len(b)
  THEN IF carry = 0 THEN <<>> ELSE <<carry>>
  ELSE <<(Limb(a, i) + Limb(b, i) + carry) % Base>>
       \o NAddFrom(a, b, i + 1, (Limb(a, i) + Limb(b, i) + carry) \div Base)

NAdd(a, b) == NAddFrom(a, b, 1, 0)

\* a - b for a >= b
RECURSIVE NSubFrom(_, _, _, _)
NSubFrom(a, b, i, borrow) ==
  IF i > Len(a) THEN <<>>
  ELSE IF Limb(a, i) - Limb(b, i) - borrow < 0
  THEN <<Limb(a, i) - Limb(b, i) - borrow + Base>> \o NSubFrom(a, b, i + 1, 1)
  ELSE <<Limb(a, i) - Limb(b, i) - borrow>> \o NSubFrom(a, b, i + 1, 0)

NSub(a, b) == NTrim(NSubFrom(a, b, 1, 0))

\* -1, 0 or 1 as a < b, a = b, a > b
RECURSIVE NCmpFrom(_, _, _)
NCmpFrom(a, b, i) ==
  IF i = 0 THEN 0
  ELSE IF a[i] < b[i] THEN -1
  ELSE IF a[i] > b[i] THEN 1
  ELSE NCmpFrom(a, b, i - 1)

NCmp(a, b) ==
  IF Len(a) < Len(b) THEN -1
  ELSE IF Len(a) > Len(b) THEN 1
  ELSE NCmpFrom(a, b, Len(a))

\* a * d + carry for one limb d
RECURSIVE NMulSmallFrom(_, _, _, _)
NMulSmallFrom(a, d, i, carry) ==
  IF i > Len(a)
  THEN IF carry = 0 THEN <<>> ELSE <<carry>>
  ELSE <<(a[i] * d + carry) % Base>>
       \o NMulSmallFrom(a, d, i + 1, (a[i] * d + carry) \div Base)

NMulSmall(a, d) == IF d = 0 THEN <<>> ELSE NMulSmallFrom(a, d, 1, 0)

\* p + rest * Base
NMulAdd(p, rest) == IF rest = <<>> THEN p ELSE NAdd(p, <<0>> \o rest)

RECURSIVE NMulFrom(_, _, _)
NMulFrom(a, b, i) ==
  IF i > Len(b) THEN <<>>
  ELSE NMulAdd(NMulSmall(a, b[i]), NMulFrom(a, b, i + 1))

NMul(a, b) ==
  IF a = <<>> \/ b = <<>> THEN <<>>
  ELSE IF Len(a) >= Len(b) THEN NMulFrom(a, b, 1)
  ELSE NMulFrom(b, a, 1)

\* the number of bits of one limb, and of a natural number
RECURSIVE LimbLen(_)
LimbLen(x) == IF x = 0 THEN 0 ELSE 1 + LimbLen(x \div 2)

NBitLen(a) ==
  IF a = <<>> THEN 0 ELSE LimbBits * (Len(a) - 1) + LimbLen(a[Len(a)])

\* a * 2^k
NShl(a, k) ==
  IF a = <<>> THEN <<>>
  ELSE [i \in 1..(k \div LimbBits) |-> 0] \o NMulSmall(a, 2^(k % LimbBits))

\* floor(a / 2^k)
NShrLimbs(a, q, r) ==
  IF Len(a) <= q THEN <<>>
  ELSE NTrim([i \in 1..(Len(a) - q) |->
               (a[q + i] \div 2^r)
               + (Limb(a, q + i + 1) % 2^r) * 2^(LimbBits - r)])

NShr(a, k) == NShrLimbs(a, k \div LimbBits, k % LimbBits)

\* bit k of a (bit 0 is the least significant)
NBit(a, k) == (Limb(a, (k \div LimbBits) + 1) \div 2^(k % LimbBits)) % 2

\* TRUE when a mod 2^k is not 0
NLowBits(a, k) ==
  \/ \E i \in 1..(k \div LimbBits) : Limb(a, i) # 0
  \/ Limb(a, (k \div LimbBits) + 1) % 2^(k % LimbBits) # 0

Reverse(q) == [i \in 1..Len(q) |-> q[Len(q) + 1 - i]]

\* floor(a / d) and a mod d for one limb d > 0: short division, one limb of
\* a at a time from the top; `rem` is the remainder of the limbs above limb
\* i, and the quotient comes out most significant limb first
QuotientFrom(digit, lower) == [q |-> <<digit>> \o lower.q, r |-> lower.r]

RECURSIVE NDivSmallFrom(_, _, _, _)
NDivSmallFrom(a, d, i, rem) ==
  IF i = 0 THEN [q |-> <<>>, r |-> rem]
  ELSE QuotientFrom((rem * Base + a[i]) \div d,
                    NDivSmallFrom(a, d, i - 1, (rem * Base + a[i]) % d))

\* the quotient least significant limb first
Quotient(res) == [q |-> NTrim(Reverse(res.q)), r |-> res.r]

NDivSmall(a, d) == Quotient(NDivSmallFrom(a, d, Len(a), 0))

\* the largest t < Base with d * t <= cur, for cur < d * Base and a d whose
\* top limb has its top bit set: the quotient of the top two limbs of cur by
\* the top limb of d is t, t + 1 or t + 2
QuotientGuess(cur, d) ==
  (Limb(cur, Len(d) + 1) * Base + Limb(cur, Len(d))) \div d[Len(d)]

QuotientNear(cur, d, t) ==
  IF NCmp(NMulSmall(d, t), cur) <= 0 THEN t
  ELSE IF NCmp(NMulSmall(d, t - 1), cur) <= 0 THEN t - 1
  ELSE t - 2

QuotientDigit(cur, d) ==
  IF QuotientGuess(cur, d) >= Base THEN QuotientNear(cur, d, Base - 1)
  ELSE QuotientNear(cur, d, QuotientGuess(cur, d))

\* floor(a / d) and a mod d for such a d: long division in the same way
RECURSIVE NDivFrom(_, _, _, _)
RECURSIVE NDivLimb(_, _, _, _, _)
NDivFrom(a, d, i, rem) ==
  IF i = 0 THEN [q |-> <<>>, r |-> rem]
  ELSE NDivLimb(a, d, i, NTrim(<<a[i]>> \o rem),
                QuotientDigit(NTrim(<<a[i]>> \o rem), d))

NDivLimb(a, d, i, cur, digit) ==
  QuotientFrom(digit, NDivFrom(a, d, i - 1, NSub(cur, NMulSmall(d, digit))))

\* floor(a / d), and whether a mod d is 0, for any d > 0: a and d are first
\* scaled by the power of 2 that sets the top bit of d's top limb
NDivScaled(a, d) == Quotient(NDivFrom(a, d, Len(a), <<>>))

\* floor(a / d), and whether a mod d, which is res.r, is zero
NDivExact(res, zero) == [q |-> res.q, exact |-> res.r = zero]

NDivMod(a, d) ==
  IF Len(d) = 1 THEN NDivExact(NDivSmall(a, d[1]), 0)
  ELSE NDivExact(NDivScaled(NShl(a, LimbBits - LimbLen(d[Len(d)])),
                        NShl(d, LimbBits - LimbLen(d[Len(d)]))), <<>>)

\* the number of trailing zero bits of a # 0
RECURSIVE LimbTrailingZeros(_)
LimbTrailingZeros(x) == IF x % 2 = 1 THEN 0 ELSE 1 + LimbTrailingZeros(x \div 2)

RECURSIVE NTrailingZerosFrom(_, _)
NTrailingZerosFrom(a, i) ==
  IF a[i] = 0 THEN LimbBits + NTrailingZerosFrom(a, i + 1)
  ELSE LimbTrailingZeros(a[i])

NTrailingZeros(a) == NTrailingZerosFrom(a, 1)

(***************************************************************************)
(* IEEE-754 binary64.                                                      *)
(***************************************************************************)
Precision == 53
EMin == -1074
EMax == 971

NaN == [k |-> "nan", s |-> 0, m |-> <<>>, e |-> 0]
Infinity(s) == [k |-> "inf", s |-> s, m |-> <<>>, e |-> 0]
Zero(s) == [k |-> "fin", s |-> s, m |-> <<>>, e |-> 0]

IsNaN(a) == a.k = "nan"
IsZero(a) == a.k = "fin" /\ a.m = <<>>

Max(i, j) == IF i >= j THEN i ELSE j

\* The binary64 value nearest to (-1)^s * M * 2^E, ties to even; `sticky`
\* says that the exact value is a little more than M * 2^E (it is set only
\* where M has bits to spare below the rounding position).
Pack(s, q, e) ==
  IF q = <<>> THEN Zero(s)
  ELSE IF e > EMax THEN Infinity(s)
  ELSE [k |-> "fin", s |-> s, m |-> q, e |-> e]

\* a significand that rounding up made one bit too long is halved
Renormalise(s, q, e) ==
  IF NBitLen(q) > Precision THEN Pack(s, NShr(q, 1), e + 1) ELSE Pack(s, q, e)

\* q is M without its lowest bits: `guard` is the highest bit left out, `low`
\* says whether anything lies below it
RoundShifted(s, q, e, guard, low) ==
  IF guard /\ (low \/ NBit(q, 0) = 1) THEN Renormalise(s, NAdd(q, <<1>>), e)
  ELSE Pack(s, q, e)

\* e1 is the exponent of the result's lowest significand bit
RoundAt(s, M, E, sticky, e1) ==
  IF e1 <= E THEN Pack(s, NShl(M, E - e1), e1)
  ELSE RoundShifted(s, NShr(M, e1 - E), e1, NBit(M, e1 - E - 1) = 1,
                    sticky \/ NLowBits(M, e1 - E - 1))

RoundPack(s, M, E, sticky) ==
  IF M = <<>> THEN Zero(s)
  ELSE RoundAt(s, M, E, sticky, Max(E + NBitLen(M) - Precision, EMin))

\* a small integer as a number
FromInt(n) ==
  IF n < 0 THEN RoundPack(1, NFromInt(-n), 0, FALSE)
  ELSE RoundPack(0, NFromInt(n), 0, FALSE)

Xor(s, t) == (s + t) % 2

FNeg(a) == IF a.k = "nan" THEN a ELSE [a EXCEPT !.s = 1 - a.s]

\* a * b
FMul(a, b) ==
  IF a.k = "nan" \/ b.k = "nan" THEN NaN
  ELSE IF a.k = "inf" \/ b.k = "inf"
  THEN IF IsZero(a) \/ IsZero(b) THEN NaN ELSE Infinity(Xor(a.s, b.s))
  ELSE RoundPack(Xor(a.s, b.s), NMul(a.m, b.m), a.e + b.e, FALSE)

\* the quotient of two finite numbers that are not 0: a's significand, with
\* k more bits so that the quotient has Precision + 2 of them or more, by the
\* odd part d of b's
FDivRound(s, e, res) == RoundPack(s, res.q, e, ~res.exact)

FDivShifted(a, b, tz, d, k) ==
  FDivRound(Xor(a.s, b.s), a.e - b.e - tz - k, NDivMod(NShl(a.m, k), d))

FDivOdd(a, b, tz, d) ==
  FDivShifted(a, b, tz, d, Precision + 2 + NBitLen(d) - NBitLen(a.m))

FDivFinite(a, b, tz) == FDivOdd(a, b, tz, NShr(b.m, tz))

\* a / b
FDiv(a, b) ==
  IF a.k = "nan" \/ b.k = "nan" THEN NaN
  ELSE IF a.k = "inf"
  THEN IF b.k = "inf" THEN NaN ELSE Infinity(Xor(a.s, b.s))
  ELSE IF b.k = "inf" THEN Zero(Xor(a.s, b.s))
  ELSE IF IsZero(b)
  THEN IF IsZero(a) THEN NaN ELSE Infinity(Xor(a.s, b.s))
  ELSE IF IsZero(a) THEN Zero(Xor(a.s, b.s))
  ELSE FDivFinite(a, b, NTrailingZeros(b.m))

\* the binary64 sum of two finite numbers that are not 0: the exact sum,
\* rounded.  An operand more than 64 binary places below the other cannot
\* move it.
AlignDistance == 64

\* mh is hi's significand at lo's exponent
FAddAligned(hi, lo, mh) ==
  IF hi.s = lo.s THEN RoundPack(hi.s, NAdd(mh, lo.m), lo.e, FALSE)
  ELSE IF NCmp(mh, lo.m) = 0 THEN Zero(0)
  ELSE IF NCmp(mh, lo.m) > 0 THEN RoundPack(hi.s, NSub(mh, lo.m), lo.e, FALSE)
  ELSE RoundPack(lo.s, NSub(lo.m, mh), lo.e, FALSE)

FAddOrdered(hi, lo) ==
  IF hi.e - lo.e > AlignDistance THEN hi
  ELSE FAddAligned(hi, lo, NShl(hi.m, hi.e - lo.e))

FAddFinite(a, b) ==
  IF a.e >= b.e THEN FAddOrdered(a, b) ELSE FAddOrdered(b, a)

\* a + b
FAdd(a, b) ==
  IF a.k = "nan" \/ b.k = "nan" THEN NaN
  ELSE IF a.k = "inf"
  THEN IF b.k = "inf" /\ a.s # b.s THEN NaN ELSE a
  ELSE IF b.k = "inf" THEN b
  ELSE IF IsZero(a)
  THEN IF IsZero(b) THEN Zero(IF a.s = b.s THEN a.s ELSE 0) ELSE b
  ELSE IF IsZero(b) THEN a
  ELSE FAddFinite(a, b)

\* a - b
FSub(a, b) == FAdd(a, FNeg(b))

\* -1, 0 or 1 as |a| < |b|, |a| = |b|, |a| > |b|, for numbers that are not NaN
MagCmp(a, b) ==
  IF a.k = "inf" THEN (IF b.k = "inf" THEN 0 ELSE 1)
  ELSE IF b.k = "inf" THEN -1
  ELSE IF IsZero(a) THEN (IF IsZero(b) THEN 0 ELSE -1)
  ELSE IF IsZero(b) THEN 1
  ELSE IF a.e # b.e THEN (IF a.e < b.e THEN -1 ELSE 1)
  ELSE NCmp(a.m, b.m)

\* -1, 0 or 1 as a < b, a = b, a > b, for numbers that are not NaN
FCmp(a, b) ==
  IF IsZero(a) /\ IsZero(b) THEN 0
  ELSE IF a.s # b.s THEN (IF a.s = 1 THEN -1 ELSE 1)
  ELSE IF a.s = 0 THEN MagCmp(a, b)
  ELSE -MagCmp(a, b)

\* the comparisons of the language: FALSE when an operand is NaN
FGt(a, b) == a.k # "nan" /\ b.k # "nan" /\ FCmp(a, b) > 0
FLt(a, b) == a.k # "nan" /\ b.k # "nan" /\ FCmp(a, b) < 0
FLe(a, b) == a.k # "nan" /\ b.k # "nan" /\ FCmp(a, b) <= 0
FGe(a, b) == a.k # "nan" /\ b.k # "nan" /\ FCmp(a, b) >= 0
FEq(a, b) == a.k # "nan" /\ b.k # "nan" /\ FCmp(a, b) = 0

(***************************************************************************)
(* Math.pow(x, n) for the two exponents calculate uses, 360 and 180.  The  *)
(* language leaves the result "implementation-approximated"; the model     *)
(* returns the binary64 value nearest to x^n, computed by squaring and     *)
(* multiplying significands of ExtBits bits, each product cut to its top   *)
(* ExtBits bits with anything cut off remembered in `inexact`.             *)
(***************************************************************************)
ExtBits == 120

ExtCutBy(M, E, inexact, cut) ==
  [m |-> NShr(M, cut), e |-> E + cut,
   inexact |-> inexact \/ (cut > 0 /\ NLowBits(M, cut))]

ExtCut(M, E, inexact) ==
  ExtCutBy(M, E, inexact, Max(NBitLen(M) - ExtBits, 0))

ExtMul(a, b) == ExtCut(NMul(a.m, b.m), a.e + b.e, a.inexact \/ b.inexact)

\* a^n from h = a^(n \div 2); a power of 0 is 0
ExtStep(h, a, n) ==
  IF h.m = <<>> THEN h
  ELSE IF n % 2 = 0 THEN ExtMul(h, h)
  ELSE ExtMul(ExtMul(h, h), a)

RECURSIVE ExtPow(_, _)
ExtPow(a, n) == IF n = 1 THEN a ELSE ExtStep(ExtPow(a, n \div 2), a, n)

\* a result far outside the range needs no significand
ExtRound(p) ==
  IF p.e > EMax + Precision THEN Infinity(0)
  ELSE IF p.e + ExtBits < EMin - 2 THEN Zero(0)
  ELSE RoundPack(0, p.m, p.e, p.inexact)

\* n is an even integer > 0
MathPow(x, n) ==
  IF x.k = "nan" THEN NaN
  ELSE IF x.k = "inf" THEN Infinity(0)
  ELSE IF IsZero(x) THEN Zero(0)
  ELSE ExtRound(ExtPow([m |-> x.m, e |-> x.e, inexact |-> FALSE], n))

(***************************************************************************)
(* Math.round(x): the integer nearest to x, a tie going up (towards        *)
(* +Infinity); a negative x that rounds to zero gives -0.                  *)
(***************************************************************************)
RoundHalfUp(s, whole, half, rest) ==
  IF half /\ (s = 0 \/ rest) THEN RoundPack(s, NAdd(whole, <<1>>), 0, FALSE)
  ELSE RoundPack(s, whole, 0, FALSE)

MathRound(x) ==
  IF x.k # "fin" \/ IsZero(x) \/ x.e >= 0 THEN x
  ELSE RoundHalfUp(x.s, NShr(x.m, -x.e), NBit(x.m, -x.e - 1) = 1,
                   NLowBits(x.m, -x.e - 1))

(***************************************************************************)
(* Text.  A string is a sequence of one-character strings.                 *)
(***************************************************************************)
Digits == <<"0", "1", "2", "3", "4", "5", "6", "7", "8", "9">>

IsDigit(c) == \E i \in 1..Len(Digits) : Digits[i] = c
DigitVal(c) == (CHOOSE i \in 1..Len(Digits) : Digits[i] = c) - 1

NSquare(a) == NMul(a, a)

\* 10^x as a natural number
RECURSIVE NPow10(_)
NPow10(x) ==
  IF x = 0 THEN <<1>>
  ELSE IF x % 2 = 0 THEN NSquare(NPow10(x \div 2))
  ELSE NMulSmall(NSquare(NPow10(x \div 2)), 10)

\* the natural number a sequence of digits writes, and 0 for no digit
RECURSIVE NFromDigits(_)
NFromDigits(digits) ==
  IF digits = <<>> THEN <<>>
  ELSE NAdd(NMulSmall(NFromDigits(SubSeq(digits, 1, Len(digits) - 1)), 10),
            NFromInt(DigitVal(digits[Len(digits)])))

\* the first index from i on that holds no digit
RECURSIVE SkipDigits(_, _)
SkipDigits(t, i) ==
  IF i <= Len(t) /\ IsDigit(t[i]) THEN SkipDigits(t, i + 1) ELSE i

\* the binary64 value nearest to (-1)^s * N * 10^x: for x < 0 the quotient of
\* N, with k more bits, by d = 10^-x
DecimalShifted(s, N, d, k) == FDivRound(s, -k, NDivMod(NShl(N, k), d))

DecimalBy(s, N, d) ==
  DecimalShifted(s, N, d, Max(Precision + 2 + NBitLen(d) - NBitLen(N), 0))

DecimalToNumber(s, N, x) ==
  IF N = <<>> THEN Zero(s)
  ELSE IF x >= 0 THEN RoundPack(s, NMul(N, NPow10(x)), 0, FALSE)
  ELSE DecimalBy(s, N, NPow10(-x))

WhiteSpace == {" "}

RECURSIVE TrimLeft(_)
TrimLeft(t) ==
  IF t # <<>> /\ t[1] \in WhiteSpace THEN TrimLeft(Tail(t)) ELSE t

RECURSIVE TrimRight(_)
TrimRight(t) ==
  IF t # <<>> /\ t[Len(t)] \in WhiteSpace
  THEN TrimRight(SubSeq(t, 1, Len(t) - 1))
  ELSE t

InfinityText == <<"I", "n", "f", "i", "n", "i", "t", "y">>

\* the decimal exponents past which a literal is Infinity, or 0, whatever
\* its digits: 10^310 is more than the largest number, 10^-326 less than
\* half the smallest
InfinityExponent == 309
ZeroExponent == -326

\* Number(text) for texts that write a number in decimal: blanks around, a
\* sign, Infinity or digits with an optional fraction and exponent; an empty
\* text is 0 and any other text NaN.  (The 0x, 0o and 0b literals, which
\* Number also reads, are left out: no text of the model starts one.)

\* N is the number the n digits write, x the decimal exponent of the last
StrDecimal(s, N, n, x) ==
  IF x > InfinityExponent THEN Infinity(s)
  ELSE IF x + n < ZeroExponent THEN Zero(s)
  ELSE DecimalToNumber(s, N, x)

\* mag is the exponent's magnitude, neg = 1 its minus sign, places the number
\* of fraction digits
StrPower(s, N, n, places, neg, mag) ==
  IF N = <<>> THEN Zero(s)
  ELSE IF Len(mag) > 1 THEN (IF neg = 1 THEN Zero(s) ELSE Infinity(s))
  ELSE IF neg = 1 THEN StrDecimal(s, N, n, -Limb(mag, 1) - places)
  ELSE StrDecimal(s, N, n, Limb(mag, 1) - places)

StrScaled(s, digits, places, neg, expDigits) ==
  IF expDigits = <<>> \/ SkipDigits(expDigits, 1) # Len(expDigits) + 1 THEN NaN
  ELSE StrPower(s, NFromDigits(digits), Len(digits), places, neg,
                NFromDigits(expDigits))

\* the text from index f1 on is the exponent part, if any
StrExponent(t, s, digits, places, f1) ==
  IF digits = <<>> THEN NaN
  ELSE IF f1 = Len(t) + 1
  THEN StrPower(s, NFromDigits(digits), Len(digits), places, 0, <<>>)
  ELSE IF t[f1] \notin {"e", "E"} THEN NaN
  ELSE IF f1 + 1 <= Len(t) /\ t[f1 + 1] = "-"
  THEN StrScaled(s, digits, places, 1, SubSeq(t, f1 + 2, Len(t)))
  ELSE IF f1 + 1 <= Len(t) /\ t[f1 + 1] = "+"
  THEN StrScaled(s, digits, places, 0, SubSeq(t, f1 + 2, Len(t)))
  ELSE StrScaled(s, digits, places, 0, SubSeq(t, f1 + 1, Len(t)))

\* the fraction digits are t[f0..f1-1]
StrFraction(t, s, whole, f0, f1) ==
  StrExponent(t, s, whole \o SubSeq(t, f0, f1 - 1), f1 - f0, f1)

\* the integer digits are t[1..i1-1]
StrInteger(t, s, i1) ==
  IF i1 <= Len(t) /\ t[i1] = "."
  THEN StrFraction(t, s, SubSeq(t, 1, i1 - 1), i1 + 1, SkipDigits(t, i1 + 1))
  ELSE StrFraction(t, s, SubSeq(t, 1, i1 - 1), i1, i1)

StrUnsigned(t, s) ==
  IF t = InfinityText THEN Infinity(s) ELSE StrInteger(t, s, SkipDigits(t, 1))

StrNumeric(t) ==
  IF t = <<>> THEN Zero(0)
  ELSE IF t[1] = "-" THEN StrUnsigned(Tail(t), 1)
  ELSE IF t[1] = "+" THEN StrUnsigned(Tail(t), 0)
  ELSE StrUnsigned(t, 0)

Number(text) == StrNumeric(TrimRight(TrimLeft(text)))

(***************************************************************************)
(* currencyFormatter.format(n) for an n that Math.round returned: en-US    *)
(* currency with no fraction digits, "$1,996", "-$0", "$NaN".  The digits  *)
(* are those of the integer n, which is what the formatter prints for      *)
(* every n below 2^53.                                                     *)
(***************************************************************************)
GroupSize == 3

\* the decimal digits of a natural number, grouped by commas from the right;
\* count is the number of digits already in the group being written
RECURSIVE GroupedDigits(_, _)
RECURSIVE GroupedFrom(_, _)
GroupedDigits(n, count) == GroupedFrom(NDivSmall(n, 10), count)

GroupedFrom(dm, count) ==
  IF dm.q = <<>> THEN <<Digits[dm.r + 1]>>
  ELSE IF count + 1 = GroupSize
  THEN GroupedDigits(dm.q, 0) \o <<",", Digits[dm.r + 1]>>
  ELSE GroupedDigits(dm.q, count + 1) \o <<Digits[dm.r + 1]>>

\* the natural number |n| of an integral finite n
IntegerOf(n) == IF n.e >= 0 THEN NShl(n.m, n.e) ELSE NShr(n.m, -n.e)

\* the one character the formatter prints for Infinity (strings here are
\* ASCII, so the character is written by its code point)
InfinitySign == "U+221E"

SignText(n) == IF n.s = 1 THEN <<"-">> ELSE <<>>

Format(n) ==
  IF n.k = "nan" THEN <<"$", "N", "a", "N">>
  ELSE IF n.k = "inf" THEN SignText(n) \o <<"$", InfinitySign>>
  ELSE SignText(n) \o <<"$">> \o GroupedDigits(IntegerOf(n), 0)

(***************************************************************************)
(* The program.                                                            *)
(***************************************************************************)
\* 0.01: the double nearest to 1/100, which is what the division rounds to
EPSILON == FDiv(FromInt(1), FromInt(100))

\* null and undefined are the empty sequence, any other value v is <<v>>
Null == <<>>
Some(v) == <<v>>

InvalidPrincipal == "Loan amount is invalid"
InvalidRate == "Interest is invalid"
InvalidExtraPayment == "Extra monthly payment is invalid"

VARIABLES
  loanAmount,           \* state.loanAmount, a text
  interest,             \* state.interest, a text
  loanTerm,             \* state.loanTerm, a text
  extraMonthlyPayment,  \* state.extraMonthlyPayment, a text
  error,                \* state.error
  results,              \* state.results
  chart,                \* chartRef.current: the data the chart shows
  pc,                   \* where the submit in progress stands, or "idle"
  args,                 \* calculate's arguments
  monthlyPayment,       \* calculate's locals
  principal,
  totalPaid,
  payments,
  monthlyPayments,
  j

inputs == <<loanAmount, interest, loanTerm, extraMonthlyPayment>>
locals == <<args, monthlyPayment, principal, totalPaid, payments,
            monthlyPayments, j>>
vars == <<loanAmount, interest, loanTerm, extraMonthlyPayment, error, results,
          chart, pc, args, monthlyPayment, principal, totalPaid, payments,
          monthlyPayments, j>>

\* the values of calculate's locals while no call is in progress
NoCall ==
  /\ args = Null
  /\ monthlyPayment = Null
  /\ principal = Null
  /\ totalPaid = Null
  /\ payments = <<>>
  /\ monthlyPayments = <<>>
  /\ j = 0

Init ==
  /\ loanAmount = <<"3", "0", "0", "0", "0", "0">>
  /\ interest = <<"7">>
  /\ loanTerm = <<"0">>
  /\ extraMonthlyPayment = <<"0">>
  /\ error = Null
  /\ results = [monthlyPayment |-> Null, totalPaid |-> Null,
                totalYears |-> Null, tableData |-> Null]
  /\ chart = Null
  /\ pc = "idle"
  /\ NoCall

\* The handlers are attached to the rendered form, and the layout effect of
\* line 222 runs handleSubmit before the form takes its first event: an edit
\* happens only once error is no longer null.
Mounted == error # Null

\* the texts the model types into the three text fields, and the values of
\* the two options of the term select
AmountTexts ==
  { <<"a", "b", "c">>, <<"0">>, <<"-", "1">> }
InterestTexts ==
  { <<"a", "b", "c">>, <<"0">>, <<"7">>, <<"-", "1", "2", "0", "0">> }
ExtraTexts ==
  { <<"a", "b", "c">>, <<"-", "5">>, <<"1", "0", "0", "0", "0", "0", "0">> }
TermTexts == { <<"0">>, <<"1">> }

handleAmountChange(value) ==
  /\ pc = "idle"
  /\ Mounted
  /\ loanAmount' = value
  /\ UNCHANGED <<interest, loanTerm, extraMonthlyPayment, error, results,
                 chart, pc, locals>>

handleTermChange(value) ==
  /\ pc = "idle"
  /\ Mounted
  /\ loanTerm' = value
  /\ UNCHANGED <<loanAmount, interest, extraMonthlyPayment, error, results,
                 chart, pc, locals>>

handleInterestChange(value) ==
  /\ pc = "idle"
  /\ Mounted
  /\ interest' = value
  /\ UNCHANGED <<loanAmount, loanTerm, extraMonthlyPayment, error, results,
                 chart, pc, locals>>

handleExtraMonthlyPaymentChange(value) ==
  /\ pc = "idle"
  /\ Mounted
  /\ extraMonthlyPayment' = value
  /\ UNCHANGED <<loanAmount, interest, loanTerm, error, results, chart, pc,
                 locals>>

\* !x
Not(x) == x.k = "nan" \/ IsZero(x)

\* { 0: 30, 1: 15 }[loanTerm] * 12
TermYears(term) == CASE term = <<"0">> -> 30 [] term = <<"1">> -> 15
MonthsPerYear == 12
TermMonths(term) == TermYears(term) * MonthsPerYear

\* the amortization formula, lines 92 to 95: i is the monthly rate and growth
\* is Math.pow(1 + i, termMonths)
Amortization(amount, i, growth) ==
  FDiv(FMul(amount, FMul(i, growth)), FSub(growth, FromInt(1)))

PaymentAt(amount, i, termMonths) ==
  Amortization(amount, i, MathPow(FAdd(FromInt(1), i), termMonths))

MonthlyPayment(amount, rate, term) ==
  PaymentAt(amount, FDiv(rate, FromInt(MonthsPerYear)), TermMonths(term))

\* the 0.01 of Number(state.interest) * 0.01, line 188
Percent == FDiv(FromInt(1), FromInt(100))

\* the three numbers handleSubmit reads from the form, lines 187 to 189
SubmittedAmount == Number(loanAmount)
SubmittedRate == FMul(Number(interest), Percent)
SubmittedExtra == Number(extraMonthlyPayment)

\* the if chain of lines 191 to 198: the message it stores in state.error
Validation(amount, rate, extra) ==
  IF IsNaN(amount) \/ Not(amount) THEN InvalidPrincipal
  ELSE IF IsNaN(rate) \/ Not(rate) THEN InvalidRate
  ELSE IF IsNaN(extra) \/ FLt(extra, Zero(0)) THEN InvalidExtraPayment
  ELSE ""

\* handleSubmit up to the loop of calculate: the validation and, when it
\* passes, the call of calculate and the locals it sets up
handleSubmit ==
  /\ pc = "idle"
  /\ error' = Some(Validation(SubmittedAmount, SubmittedRate, SubmittedExtra))
  /\ IF error'[1] = ""
     THEN /\ args' = Some([loanAmount |-> SubmittedAmount,
                           interest |-> SubmittedRate,
                           loanTerm |-> loanTerm,
                           extraPrincipal |-> SubmittedExtra])
          /\ monthlyPayment' =
               Some(MonthlyPayment(SubmittedAmount, SubmittedRate, loanTerm))
          /\ principal' = Some(SubmittedAmount)
          /\ totalPaid' = Some(Zero(0))
          /\ payments' = <<>>
          /\ monthlyPayments' = <<>>
          /\ j' = 0
          /\ pc' = "while"
     ELSE UNCHANGED <<pc, locals>>
  /\ UNCHANGED <<inputs, results, chart>>

\* the most year-chunks the model lets the loop of calculate make
MaxYears == 32

\* while (principal > EPSILON), line 102
WhileTest ==
  /\ pc = "while"
  /\ Len(payments) < MaxYears
  /\ IF FGt(principal[1], EPSILON)
     THEN /\ monthlyPayments' = <<>>
          /\ j' = 0
          /\ pc' = "for"
     ELSE /\ pc' = "return"
          /\ UNCHANGED <<monthlyPayments, j>>
  /\ UNCHANGED <<inputs, error, results, chart, args, monthlyPayment,
                 principal, totalPaid, payments>>

\* line 106
InterestPayment(balance, rate) ==
  FDiv(FMul(balance, rate), FromInt(MonthsPerYear))

\* line 107
Scheduled(payment, extra, interestPayment) ==
  FSub(FAdd(payment, extra), interestPayment)

\* Clamp with the if of lines 109 to 111 left out
ClampNone(balance, scheduled) == scheduled

\* the early-payoff clamp, lines 109 to 111
Clamp(balance, scheduled) ==
  IF FLe(balance, scheduled) THEN balance ELSE scheduled

\* Paid with the principal payment left out of the total
PaidInterestOnly(paidBefore, interestPayment, principalPayment) ==
  FAdd(paidBefore, interestPayment)

\* line 114
Paid(paidBefore, interestPayment, principalPayment) ==
  FAdd(paidBefore, FAdd(interestPayment, principalPayment))

\* the zero-snap, lines 116 to 118
Snap(balance) == IF FLe(balance, EPSILON) THEN Zero(0) ELSE balance

\* one month: the body of the for loop, lines 106 to 124, as the entry it
\* pushes; the entry's principal and totalPaid are the updated locals
EntryOf(balance, paidBefore, interestPayment, principalPayment) ==
  [interestPayment |-> interestPayment,
   principalPayment |-> principalPayment,
   principal |-> Snap(FSub(balance, principalPayment)),
   totalPaid |-> Paid(paidBefore, interestPayment, principalPayment)]

EntryWith(call, payment, balance, paidBefore, interestPayment) ==
  EntryOf(balance, paidBefore, interestPayment,
          Clamp(balance,
                Scheduled(payment, call.extraPrincipal, interestPayment)))

MonthEntry(call, payment, balance, paidBefore) ==
  EntryWith(call, payment, balance, paidBefore,
            InterestPayment(balance, call.interest))

\* the newest entry of a list of months
Last(months) == months[Len(months)]

\* one turn of the for loop, lines 105 to 129
Month ==
  /\ pc = "for"
  /\ j < MonthsPerYear
  /\ monthlyPayments' =
       Append(monthlyPayments,
              MonthEntry(args[1], monthlyPayment[1], principal[1],
                         totalPaid[1]))
  /\ principal' = Some(Last(monthlyPayments').principal)
  /\ totalPaid' = Some(Last(monthlyPayments').totalPaid)
  /\ IF FLe(principal'[1], EPSILON)
     THEN pc' = "push" /\ j' = j
     ELSE pc' = "for" /\ j' = j + 1
  /\ UNCHANGED <<inputs, error, results, chart, args, monthlyPayment,
                 payments>>

\* j < 12 fails, line 105
ForExit ==
  /\ pc = "for"
  /\ j >= MonthsPerYear
  /\ pc' = "push"
  /\ UNCHANGED <<inputs, error, results, chart, locals>>

\* lines 131 to 133
PushYear ==
  /\ pc = "push"
  /\ IF Len(monthlyPayments) > 0
     THEN payments' = Append(payments, monthlyPayments)
     ELSE payments' = payments
  /\ pc' = "while"
  /\ UNCHANGED <<inputs, error, results, chart, args, monthlyPayment,
                 principal, totalPaid, monthlyPayments, j>>

\* yearInterest and yearPrincipal of lines 146 to 152: the sum of a field
\* over the first n months of a chunk, added up from 0 in their order
RECURSIVE YearInterest(_, _)
YearInterest(months, n) ==
  IF n = 0 THEN Zero(0)
  ELSE FAdd(YearInterest(months, n - 1), months[n].interestPayment)

RECURSIVE YearPrincipal(_, _)
YearPrincipal(months, n) ==
  IF n = 0 THEN Zero(0)
  ELSE FAdd(YearPrincipal(months, n - 1), months[n].principalPayment)

\* yearInterest / monthlyPayments.length, lines 154 and 155
Average(sum, length) == FDiv(sum, FromInt(length))

\* lines 136 to 142 and 154 to 155
ChartData(years) ==
  [labels |-> [index \in 1..Len(years) |-> index],
   interest |-> [y \in 1..Len(years) |->
                   Average(YearInterest(years[y], Len(years[y])),
                           Len(years[y]))],
   principal |-> [y \in 1..Len(years) |->
                    Average(YearPrincipal(years[y], Len(years[y])),
                            Len(years[y]))]]

\* lines 157 to 164
TableData(years) ==
  [y \in 1..Len(years) |->
     [interest |->
        Format(MathRound(YearInterest(years[y], Len(years[y])))),
      principal |->
        Format(MathRound(YearPrincipal(years[y], Len(years[y])))),
      principalBalance |->
        Format(MathRound(years[y][Len(years[y])].principal))]]

\* what calculate returns, lines 167 to 173
Returned ==
  [monthlyPayment |-> Format(MathRound(monthlyPayment[1])),
   totalPaid |-> Format(MathRound(totalPaid[1])),
   totalYears |-> Len(payments),
   chartData |-> ChartData(payments),
   tableData |-> TableData(payments)]

\* Stored with the assignment of totalYears left out
StoredPartial(r) ==
  [monthlyPayment |-> Some(r.monthlyPayment),
   totalPaid |-> Some(r.totalPaid),
   totalYears |-> Null,
   tableData |-> Some(r.tableData)]

\* what handleSubmit stores of the returned object, lines 202 to 205
Stored(r) ==
  [monthlyPayment |-> Some(r.monthlyPayment),
   totalPaid |-> Some(r.totalPaid),
   totalYears |-> Some(r.totalYears),
   tableData |-> Some(r.tableData)]

\* the rest of calculate and of handleSubmit, lines 136 to 218
Return ==
  /\ pc = "return"
  /\ results' = Stored(Returned)
  /\ chart' = Some(ChartData(payments))
  /\ pc' = "idle"
  /\ args' = Null
  /\ monthlyPayment' = Null
  /\ principal' = Null
  /\ totalPaid' = Null
  /\ payments' = <<>>
  /\ monthlyPayments' = <<>>
  /\ j' = 0
  /\ UNCHANGED <<inputs, error>>

Next ==
  \/ \E value \in AmountTexts : handleAmountChange(value)
  \/ \E value \in TermTexts : handleTermChange(value)
  \/ \E value \in InterestTexts : handleInterestChange(value)
  \/ \E value \in ExtraTexts : handleExtraMonthlyPaymentChange(value)
  \/ handleSubmit
  \/ WhileTest
  \/ Month
  \/ ForExit
  \/ PushYear
  \/ Return

Spec == Init /\ [][Next]_vars

(***************************************************************************)
(* calculate on its own: the form filled with one of a list of loans, then *)
(* submitted, with no edit while or after it runs.                         *)
(***************************************************************************)
Loans ==
  {
    \* the form as it starts
    [loanAmount |-> <<"3", "0", "0", "0", "0", "0">>,
     interest |-> <<"7">>,
     loanTerm |-> <<"0">>,
     extraMonthlyPayment |-> <<"0">>],
    \* the 15 year term
    [loanAmount |-> <<"3", "0", "0", "0", "0", "0">>,
     interest |-> <<"7">>,
     loanTerm |-> <<"1">>,
     extraMonthlyPayment |-> <<"0">>],
    \* an extra payment: the loan ends in a chunk of 4 months
    [loanAmount |-> <<"3", "0", "0", "0", "0", "0">>,
     interest |-> <<"7">>,
     loanTerm |-> <<"0">>,
     extraMonthlyPayment |-> <<"5", "0", "0">>],
    \* an extra payment above the loan: one month
    [loanAmount |-> <<"1", "0", "0">>,
     interest |-> <<"7">>,
     loanTerm |-> <<"0">>,
     extraMonthlyPayment |-> <<"1", "0", "0", "0", "0", "0", "0">>],
    \* a rate of 70%
    [loanAmount |-> <<"3", "0", "0", "0", "0", "0">>,
     interest |-> <<"7", "0">>,
     loanTerm |-> <<"0">>,
     extraMonthlyPayment |-> <<"0">>],
    \* a rate of 125%
    [loanAmount |-> <<"3", "0", "0", "0", "0", "0">>,
     interest |-> <<"1", "2", "5">>,
     loanTerm |-> <<"0">>,
     extraMonthlyPayment |-> <<"0">>],
    \* a loan below EPSILON
    [loanAmount |-> <<"0", ".", "0", "0", "5">>,
     interest |-> <<"7">>,
     loanTerm |-> <<"0">>,
     extraMonthlyPayment |-> <<"0">>],
    \* a first month that leaves 0.003 unpaid
    [loanAmount |-> <<"1", "0", "0", ".", "0", "0", "5">>,
     interest |-> <<"7">>,
     loanTerm |-> <<"0">>,
     extraMonthlyPayment |-> <<"9", "9", ".", "9", "2">>],
    \* a rate of 7500%: the growth factor is Infinity
    [loanAmount |-> <<"3", "0", "0", "0", "0", "0">>,
     interest |-> <<"7", "5", "0", "0">>,
     loanTerm |-> <<"0">>,
     extraMonthlyPayment |-> <<"0">>]
  }

InitCalc ==
  /\ \E loan \in Loans :
       /\ loanAmount = loan.loanAmount
       /\ interest = loan.interest
       /\ loanTerm = loan.loanTerm
       /\ extraMonthlyPayment = loan.extraMonthlyPayment
  /\ error = Null
  /\ results = [monthlyPayment |-> Null, totalPaid |-> Null,
                totalYears |-> Null, tableData |-> Null]
  /\ chart = Null
  /\ pc = "idle"
  /\ NoCall

NextCalc ==
  \/ handleSubmit /\ error = Null
  \/ WhileTest
  \/ Month
  \/ ForExit
  \/ PushYear
  \/ Return

SpecCalc == InitCalc /\ [][NextCalc]_vars

(***************************************************************************)
(* Properties.                                                             *)
(***************************************************************************)
\* a number that is not a number, is zero or is negative
NotPositive(x) == IsNaN(x) \/ FLe(x, Zero(0))

\* a step that is a submit of the form
SubmitStep == pc = "idle" /\ handleSubmit

\* calculate was not invoked by the step
NotInvoked == pc' = "idle" /\ args' = Null

\* C1: every submit whose principal is not a number, is zero or is negative
\* fails with the message InvalidPrincipal, whatever the other fields hold,
\* and does not invoke calculate.
C1_InvalidPrincipalRejected ==
  [][(SubmitStep /\ NotPositive(SubmittedAmount))
       => (error' = Some(InvalidPrincipal) /\ NotInvoked)]_vars

\* C2: every submit whose principal is valid and whose rate is not a number,
\* is zero or is negative fails with the message InvalidRate and does not
\* invoke calculate: calculate never runs with a rate <= 0.
C2_InvalidRateRejected ==
  [][(SubmitStep /\ ~NotPositive(SubmittedAmount)
        /\ NotPositive(SubmittedRate))
       => (error' = Some(InvalidRate) /\ NotInvoked)]_vars

\* the message of the first invalid field in the order principal, rate,
\* extra payment, and "" when every field is valid
FirstInvalid ==
  IF NotPositive(SubmittedAmount) THEN InvalidPrincipal
  ELSE IF NotPositive(SubmittedRate) THEN InvalidRate
  ELSE IF IsNaN(SubmittedExtra) \/ FLt(SubmittedExtra, Zero(0))
  THEN InvalidExtraPayment
  ELSE ""

\* C3: a submit sets exactly one message, that of the first field, in the
\* order principal, rate, extra payment, that is invalid.
C3_FirstInvalidReported == [][SubmitStep => error' = Some(FirstInvalid)]_vars

\* a step of the idle form that is no edit: a submit that failed validation
FailedSubmitStep == pc = "idle" /\ pc' = "idle" /\ UNCHANGED inputs

\* the four result fields as the call in progress has computed them
ResultsOfCall ==
  [monthlyPayment |-> Some(Format(MathRound(monthlyPayment[1]))),
   totalPaid |-> Some(Format(MathRound(totalPaid[1]))),
   totalYears |-> Some(Len(payments)),
   tableData |->
     Some([y \in 1..Len(payments) |->
             [interest |->
                Format(MathRound(YearInterest(payments[y], Len(payments[y])))),
              principal |->
                Format(MathRound(YearPrincipal(payments[y],
                                               Len(payments[y])))),
              principalBalance |->
                Format(MathRound(Last(payments[y]).principal))]])]

\* C4: a submit that fails validation changes nothing but the error: the
\* four result fields, the chart and the inputs stay as they were and no
\* call is started; a submit that passes sets the error to "" and, when its
\* one call of calculate ends, overwrites the four result fields with what
\* that call computed.  The results change at no other step.
C4_SubmitFrame ==
  [][/\ FailedSubmitStep
          => (UNCHANGED <<results, chart, locals>> /\ error' # Some(""))
     /\ (pc = "idle" /\ pc' # "idle")
          => (error' = Some("") /\ UNCHANGED <<results, chart, inputs>>)
     /\ pc # "idle" => error = Some("")
     /\ pc = "return" => (results' = ResultsOfCall /\ pc' = "idle")
     /\ results' # results => pc = "return"]_vars

\* a failed submit has left the results of the first submit in place
C4_Witness ==
  /\ pc = "idle"
  /\ error = Some(InvalidPrincipal)
  /\ results.totalYears = Some(30)
  /\ results.totalPaid = Some(<<"$", "7", "1", "8", ",", "5", "2", "7">>)

\* calculate runs on a valid input: principal > 0, rate > 0, extra >= 0
ValidCall ==
  /\ args # Null
  /\ FGt(args[1].loanAmount, Zero(0))
  /\ FGt(args[1].interest, Zero(0))
  /\ FGe(args[1].extraPrincipal, Zero(0))

\* the chunk the for loop is filling
Filling == pc \in {"for", "push"}

\* C5: for a valid input the remaining principal of the monthly entries is
\* never negative, does not increase from a month to the next, and is 0 in
\* the final recorded month.
C5_MonotonicPayoff ==
  ValidCall =>
    /\ Filling =>
         /\ \A m \in 1..Len(monthlyPayments) :
              FGe(monthlyPayments[m].principal, Zero(0))
         /\ \A m \in 2..Len(monthlyPayments) :
              FLe(monthlyPayments[m].principal,
                  monthlyPayments[m - 1].principal)
         /\ (monthlyPayments # <<>> /\ payments # <<>>)
              => FLe(monthlyPayments[1].principal,
                     Last(Last(payments)).principal)
    /\ (pc = "return" /\ payments # <<>>)
         => IsZero(Last(Last(payments)).principal)

\* C6: for a valid input the number of year-chunks calculate returns is the
\* nominal number of years, 30 or 15, when the extra payment is 0, and at
\* most that number when the extra payment is > 0.
C6_TotalYears ==
  (ValidCall /\ pc = "return") =>
    IF IsZero(args[1].extraPrincipal)
    THEN Len(payments) = TermYears(args[1].loanTerm)
    ELSE Len(payments) <= TermYears(args[1].loanTerm)

\* the running total recorded before month m of chunk y: that of the month
\* before it, and 0 before the first month
PaidBefore(years, y, m) ==
  IF m > 1 THEN years[y][m - 1].totalPaid
  ELSE IF y > 1 THEN Last(years[y - 1]).totalPaid
  ELSE Zero(0)

\* the months recorded so far, by chunk
Recorded == IF Filling THEN Append(payments, monthlyPayments) ELSE payments

\* the newest month recorded so far, if any
Newest ==
  IF Filling /\ monthlyPayments # <<>> THEN Some(Last(monthlyPayments))
  ELSE IF payments # <<>> THEN Some(Last(Last(payments)))
  ELSE Null

\* every month of chunk y adds its interest and principal payments, once, to
\* the total recorded before it
CountedOnce(years, y) ==
  \A m \in 1..Len(years[y]) :
    years[y][m].totalPaid =
      FAdd(PaidBefore(years, y, m),
           FAdd(years[y][m].interestPayment, years[y][m].principalPayment))

\* C7: after every month, and at the end of calculate, totalPaid is the sum,
\* added up from 0 in the order of the months, of interestPayment +
\* principalPayment over every month recorded so far: the total after a
\* month is the total before it plus that month's two payments, and the
\* local totalPaid is the total after the newest month.
C7_Conservation ==
  (pc # "idle") =>
    /\ totalPaid[1] = IF Newest = Null THEN Zero(0) ELSE Newest[1].totalPaid
    /\ IF pc = "return"
       THEN \A y \in 1..Len(payments) : CountedOnce(payments, y)
       ELSE Recorded # <<>> => CountedOnce(Recorded, Len(Recorded))

\* the 30 year loan of the form has returned with its 360 months counted
C7_Witness ==
  /\ pc = "return"
  /\ Len(payments) = 30
  /\ Len(payments[30]) = 12
  /\ Format(MathRound(totalPaid[1]))
       = <<"$", "7", "1", "8", ",", "5", "2", "7">>

\* the sum of a field over the first n months of a chunk
RECURSIVE SumOver(_, _, _)
SumOver(months, field, n) ==
  IF n = 0 THEN Zero(0)
  ELSE FAdd(SumOver(months, field, n - 1), months[n][field])

SumOfYear(y, field) == SumOver(payments[y], field, Len(payments[y]))

AverageOfYear(y, field) ==
  FDiv(SumOfYear(y, field), FromInt(Len(payments[y])))

\* the ending balance the table shows for chunk y
EndingBalance(y) == Format(MathRound(Last(payments[y]).principal))

\* C8: for each chunk of the returned schedule the reported interest and
\* principal figures, the two data sets of the chart, are the chunk's sums
\* divided by its month count; the reported ending balance, which the table
\* shows rounded and formatted as currency, is the remaining principal of
\* the chunk's last month, and is 0 for the final chunk.
C8_Aggregation ==
  [][pc = "return" =>
       /\ Len(results'.tableData[1]) = Len(payments)
       /\ Len(chart'[1].interest) = Len(payments)
       /\ Len(chart'[1].principal) = Len(payments)
       /\ \A y \in 1..Len(payments) :
            /\ chart'[1].interest[y] = AverageOfYear(y, "interestPayment")
            /\ chart'[1].principal[y] = AverageOfYear(y, "principalPayment")
            /\ results'.tableData[1][y].principalBalance = EndingBalance(y)
       /\ payments # <<>> =>
            results'.tableData[1][Len(payments)].principalBalance
              = <<"$", "0">>]_vars

\* the month about to be simulated is one where the remaining principal is
\* <= payment + extraPayment - interestPayment
ClampCase ==
  /\ pc = "for"
  /\ j < MonthsPerYear
  /\ FLe(principal[1],
         FSub(FAdd(monthlyPayment[1], args[1].extraPrincipal),
              FDiv(FMul(principal[1], args[1].interest),
                   FromInt(MonthsPerYear))))

\* the loan of the boundary scenario: 100 at 7% over 360 months, with an
\* extra payment of 1000000
BoundaryLoan ==
  /\ loanAmount = <<"1", "0", "0">>
  /\ interest = <<"7">>
  /\ loanTerm = <<"0">>
  /\ extraMonthlyPayment = <<"1", "0", "0", "0", "0", "0", "0">>

\* C9: in a month where the remaining principal is <= payment + extra -
\* interest, the principal payment is the remaining principal, the balance
\* becomes 0, the month is recorded, and it is the last month of the last
\* chunk: once the balance is 0 the for loop takes no further turn and the
\* month ends the chunk that is pushed last.  The boundary loan returns one
\* chunk of one month.
C9_EarlyPayoffClamp ==
  [][/\ ClampCase =>
          /\ Len(monthlyPayments') = Len(monthlyPayments) + 1
          /\ Last(monthlyPayments').principalPayment = principal[1]
          /\ IsZero(Last(monthlyPayments').principal)
          /\ IsZero(principal'[1])
          /\ pc' = "push"
     /\ (pc \in {"push", "while"} /\ IsZero(principal[1]))
          => /\ pc' \in {"while", "return"}
             /\ payments' # <<>>
             /\ IsZero(Last(Last(payments')).principal)
     /\ (pc = "return" /\ BoundaryLoan)
          => (Len(payments) = 1 /\ Len(payments[1]) = 1)]_vars

\* the boundary loan has returned one chunk of one month that paid 100
C9_Witness ==
  /\ pc = "return"
  /\ BoundaryLoan
  /\ Len(payments) = 1
  /\ Len(payments[1]) = 1
  /\ payments[1][1].principalPayment = FromInt(100)
  /\ IsZero(payments[1][1].principal)

\* the balance before month m of chunk y: that recorded by the month before
\* it, and the loan amount before the first month
BalanceBefore(years, y, m) ==
  IF m > 1 THEN years[y][m - 1].principal
  ELSE IF y > 1 THEN Last(years[y - 1]).principal
  ELSE args[1].loanAmount

\* every month of chunk y leaves the balance before it less what it paid
NothingDropped(years, y) ==
  \A m \in 1..Len(years[y]) :
    years[y][m].principal =
      FSub(BalanceBefore(years, y, m), years[y][m].principalPayment)

\* C10: for a valid input the principal payments of the recorded months add
\* up to the loan amount: every month leaves as balance what was left before
\* it less what it paid, the zero-snap dropping nothing, and a loan of at
\* most EPSILON still has a recorded month.
C10_PrincipalConserved ==
  ValidCall =>
    /\ (Filling /\ monthlyPayments # <<>>)
         => NothingDropped(Recorded, Len(Recorded))
    /\ pc = "return" => payments # <<>>
====
